---- MODULE Spec2Model ----
(***************************************************************************)
(* Model of zenoh-c's scouting boundary:                                   *)
(*   src/src/scouting.rs               z_owned_str_array_t, z_owned_hello_t *)
(*                                     and z_scout                         *)
(*   src/src/closures/hello_closure.rs z_owned_closure_hello_t             *)
(*                                                                         *)
(* HelloSpec exercises the owned values (string array, hello) on one       *)
(* caller-visible slot and an explicit heap.                               *)
(* Spec is the caller's thread with the rounds it starts; RoundSpec is one *)
(* z_scout call with every filter and with callables that leave, steal or  *)
(* drop the reply; RoundLiveSpec adds the fairness of the sleep's timer.    *)
(***************************************************************************)
EXTENDS Integers, Sequences, FiniteSets, TLC

\* ------------------------------------------------------------------ bounds
MaxLocators == 2   \* longest native locator list
MaxKind == 2       \* native kind tags are 0..MaxKind
MaxId == 1         \* native identities are 1..MaxId
MaxCtx == 1        \* closures built by from(callable)
MaxRounds == 1     \* z_scout calls that start a session
MaxWorkers == 2    \* worker contexts of the executor
MaxReplies == 2    \* replies a session dispatches
MaxWhat == 3       \* filter bitmasks are 0..MaxWhat, and NoSuchKind

\* ------------------------------------------------------------- heap model
\* std::ptr::null_mut()
NULL == 0
\* the allocator's addresses: room for the reply of every worker context and
\* for one reply held by the caller
MaxAddr == (MaxWorkers + 1) * (MaxLocators + 1)
Addrs == 1..MaxAddr
\* Vec::as_mut_ptr() of a Vec without allocation: non-null, not an allocation
Dangling == MaxAddr + 1

\* Option<T>
None == <<>>
Some(x) == <<x>>

\* l.to_string() of the native locators the session can report
LocatorTexts == {<<1>>, <<2, 1>>}
LocatorLists == UNION {[1..n -> LocatorTexts] : n \in 0..MaxLocators}

\* zenoh::scouting::Hello { whatami, zid, locators }, all three optional
NativeHellos ==
    [whatami : {None} \cup {Some(k) : k \in 0..MaxKind},
     zid : {None} \cup {Some(i) : i \in 1..MaxId},
     locators : {None} \cup {Some(l) : l \in LocatorLists}]

\* the values crate::Z_ROUTER may have: the gravestone tag or a real tag
RouterValues == {0, 1}

UnusedBlock == [kind |-> "unused", live |-> FALSE, frees |-> 0, data |-> <<>>]
EmptyHeap == [a \in Addrs |-> UnusedBlock]

VARIABLES
    z_router,   \* crate::Z_ROUTER
    heap,       \* the allocator's blocks
    native,     \* the native reply last converted
    hello,      \* the z_owned_hello_t under observation
    lastOp,     \* the operation that produced the current hello
    prevOp,     \* the operation before it
    preHello,   \* hello before lastOp
    nfreed      \* blocks deallocated by lastOp

hvars == <<z_router, heap, native, hello, lastOp, prevOp, preHello, nfreed>>

VARIABLES
    config,     \* the caller's z_owned_config_t: None, or Some(id of the config)
    nconfig,    \* configurations created so far
    handle,     \* "vacant" or "live": whether the caller's closure handle exists
    callback,   \* the caller's z_owned_closure_hello_t
    nctx,       \* contexts boxed by from(callable) so far
    active,     \* per context: call entry point invocations in progress
    called,     \* per context: the call entry point has been invoked
    drops,      \* per context: drop entry point invocations started / ended
    pc,         \* where the caller's thread is
    mainCtx,    \* the context whose entry point the caller's thread is in
    mop,        \* the last entry point the caller's thread went through
    logged,     \* log::error! was reached
    round,      \* the scout rounds: session state and the closure it owns
    nround,     \* rounds started so far
    worker,     \* the executor's worker contexts
    timer       \* task::sleep(timeout): "idle", "armed" or "expired"

svars == <<config, nconfig, handle, callback, nctx, active, called, drops, pc, mainCtx,
           mop, logged, round, nround, worker, timer>>

vars == <<z_router, heap, native, hello, lastOp, prevOp, preHello, nfreed,
          config, nconfig, handle, callback, nctx, active, called, drops, pc, mainCtx,
          mop, logged, round, nround, worker, timer>>

\* ------------------------------------------------------------- allocator
Used(hp) == {a \in Addrs : hp[a].kind # "unused"}
\* the addresses the allocator can hand out: never allocated, or freed
Avail(hp) == {a \in Addrs : ~hp[a].live}
Room(hp) == Cardinality(Avail(hp))
\* the allocator hands out the lowest available addresses: the i-th of them
Nth(S, i) == CHOOSE a \in S : Cardinality({b \in S : b < a}) = i - 1
Rank(S, a) == Cardinality({b \in S : b < a}) + 1

\* CString::new(text).unwrap(): the bytes and the terminating NUL
CStringNew(text) == text \o <<0>>

\* CString::from_raw(p) dropped, or a Vec buffer released
Free(hp, a) == [hp EXCEPT ![a].live = FALSE, ![a].frees = @ + 1]

RECURSIVE FreeAll(_, _)
FreeAll(hp, ptrs) ==
    IF ptrs = <<>> THEN hp
    ELSE FreeAll(IF Head(ptrs) \in Addrs THEN Free(hp, Head(ptrs)) ELSE hp,
                 Tail(ptrs))

\* -------------------------------------------------- z_owned_str_array_t
\* the len pointers stored behind val (none behind null or a dangling val)
Stored(strs, hp) ==
    IF strs.val \in Addrs
    THEN SubSeq(hp[strs.val].data, 1, strs.len)
    ELSE <<>>

z_str_array_drop_keeps_val(strs, hp) ==
    LET locators == Stored(strs, hp)
        hp1 == FreeAll(hp, locators)
        hp2 == IF strs.val \in Addrs /\ strs.len > 0 THEN Free(hp1, strs.val) ELSE hp1
    IN [strs |-> [val |-> strs.val, len |-> 0],
        heap |-> hp2,
        nfreed |-> Len(locators) + (IF strs.val \in Addrs /\ strs.len > 0 THEN 1 ELSE 0)]

z_str_array_drop_keeps_len(strs, hp) ==
    LET locators == Stored(strs, hp)
        hp1 == FreeAll(hp, locators)
        hp2 == IF strs.val \in Addrs /\ strs.len > 0 THEN Free(hp1, strs.val) ELSE hp1
    IN [strs |-> [val |-> NULL, len |-> strs.len],
        heap |-> hp2,
        nfreed |-> Len(locators) + (IF strs.val \in Addrs /\ strs.len > 0 THEN 1 ELSE 0)]

\* Vec::from_raw_parts(val, len, len); every CString released, then the
\* buffer (a Vec of capacity 0 owns none); val = null; len = 0
z_str_array_drop(strs, hp) ==
    LET locators == Stored(strs, hp)
        hp1 == FreeAll(hp, locators)
        hp2 == IF strs.val \in Addrs /\ strs.len > 0 THEN Free(hp1, strs.val) ELSE hp1
    IN [strs |-> [val |-> NULL, len |-> 0],
        heap |-> hp2,
        nfreed |-> Len(locators) + (IF strs.val \in Addrs /\ strs.len > 0 THEN 1 ELSE 0)]

z_str_array_check_len(strs) == strs.len > 0

z_str_array_check(strs) == strs.val # NULL

\* ------------------------------------------------------ z_owned_hello_t
FromLocators_reversed(opt, hp) ==
    IF opt = None
    THEN [strs |-> [val |-> NULL, len |-> 0], heap |-> hp]
    ELSE LET l == opt[1]
             n == Len(l)
             av == Avail(hp)
             strAt == {Nth(av, i) : i \in 1..n}
             hp1 == [a \in Addrs |->
                       IF a \in strAt
                       THEN [kind |-> "cstr", live |-> TRUE, frees |-> 0,
                             data |-> CStringNew(l[n + 1 - Rank(av, a)])]
                       ELSE IF n > 0 /\ a = Nth(av, n + 1)
                       THEN [kind |-> "vec", live |-> TRUE, frees |-> 0,
                             data |-> [i \in 1..n |-> Nth(av, i)]]
                       ELSE hp[a]]
         IN [strs |-> [val |-> IF n > 0 THEN Nth(av, n + 1) ELSE Dangling, len |-> n],
             heap |-> hp1]

\* locators => one CString per locator, collected into a Vec whose buffer
\* (none for an empty Vec) and length become val and len
FromLocators(opt, hp) ==
    IF opt = None
    THEN [strs |-> [val |-> NULL, len |-> 0], heap |-> hp]
    ELSE LET l == opt[1]
             n == Len(l)
             av == Avail(hp)
             strAt == {Nth(av, i) : i \in 1..n}
             hp1 == [a \in Addrs |->
                       IF a \in strAt
                       THEN [kind |-> "cstr", live |-> TRUE, frees |-> 0,
                             data |-> CStringNew(l[Rank(av, a)])]
                       ELSE IF n > 0 /\ a = Nth(av, n + 1)
                       THEN [kind |-> "vec", live |-> TRUE, frees |-> 0,
                             data |-> [i \in 1..n |-> Nth(av, i)]]
                       ELSE hp[a]]
         IN [strs |-> [val |-> IF n > 0 THEN Nth(av, n + 1) ELSE Dangling, len |-> n],
             heap |-> hp1]

from_null_when_empty(h, router, hp) ==
    LET arr == FromLocators(IF h.locators = Some(<<>>) THEN None ELSE h.locators, hp)
    IN [hello |-> [whatami |-> IF h.whatami # None THEN h.whatami[1] ELSE router,
                   pid |-> IF h.zid # None THEN h.zid[1] ELSE 0,
                   locators |-> arr.strs],
        heap |-> arr.heap]

\* impl From<Hello> for z_owned_hello_t
from(h, router, hp) ==
    LET arr == FromLocators(h.locators, hp)
    IN [hello |-> [whatami |-> IF h.whatami # None THEN h.whatami[1] ELSE router,
                   pid |-> IF h.zid # None THEN h.zid[1] ELSE 0,
                   locators |-> arr.strs],
        heap |-> arr.heap]

z_hello_drop_keeps_array(h, hp) ==
    [hello |-> [h EXCEPT !.whatami = 0], heap |-> hp, nfreed |-> 0]

z_hello_drop_keeps_pointer(h, hp) ==
    LET r == z_str_array_drop(h.locators, hp)
    IN [hello |-> [h EXCEPT !.whatami = 0], heap |-> r.heap, nfreed |-> r.nfreed]

z_hello_drop_keeps_tag(h, hp) ==
    LET r == z_str_array_drop(h.locators, hp)
    IN [hello |-> [h EXCEPT !.locators = r.strs], heap |-> r.heap, nfreed |-> r.nfreed]

z_hello_drop(h, hp) ==
    LET r == z_str_array_drop(h.locators, hp)
    IN [hello |-> [h EXCEPT !.locators = r.strs, !.whatami = 0],
        heap |-> r.heap, nfreed |-> r.nfreed]

z_hello_null == [whatami |-> 0, pid |-> 0, locators |-> [val |-> NULL, len |-> 0]]

z_hello_check(h) == h.whatami # 0 /\ z_str_array_check(h.locators)

\* ------------------------------------------------------------ HelloSpec
\* the caller's slot holds z_hello_null(); the native reply is the input
HelloInit(natives) ==
    /\ z_router \in RouterValues
    /\ heap = EmptyHeap
    /\ native \in natives
    /\ hello = z_hello_null
    /\ lastOp = "z_hello_null"
    /\ prevOp = "none"
    /\ preHello = z_hello_null
    /\ nfreed = 0

Record(op) ==
    /\ lastOp' = op
    /\ prevOp' = lastOp
    /\ preHello' = hello

\* native.into() into a slot that owns nothing
HelloFrom ==
    /\ ~z_str_array_check(hello.locators)
    /\ Room(heap) >= MaxLocators + 1
    /\ LET r == from(native, z_router, heap)
       IN /\ hello' = r.hello
          /\ heap' = r.heap
    /\ nfreed' = 0
    /\ Record("from")
    /\ UNCHANGED <<z_router, native>>

HelloNull ==
    /\ ~z_str_array_check(hello.locators)
    /\ hello' = z_hello_null
    /\ nfreed' = 0
    /\ Record("z_hello_null")
    /\ UNCHANGED <<z_router, heap, native>>

HelloDrop ==
    /\ LET r == z_hello_drop(hello, heap)
       IN /\ hello' = r.hello
          /\ heap' = r.heap
          /\ nfreed' = r.nfreed
    /\ Record("z_hello_drop")
    /\ UNCHANGED <<z_router, native>>

StrArrayDrop ==
    /\ LET r == z_str_array_drop(hello.locators, heap)
       IN /\ hello' = [hello EXCEPT !.locators = r.strs]
          /\ heap' = r.heap
          /\ nfreed' = r.nfreed
    /\ Record("z_str_array_drop")
    /\ UNCHANGED <<z_router, native>>

\* ------------------------------------------------ z_owned_closure_hello_t
Ctxs == 1..MaxCtx
Rounds == 1..MaxRounds
Workers == 1..MaxWorkers

\* z_owned_closure_hello_t::empty()
empty == [context |-> NULL, call |-> FALSE, drop |-> FALSE]

closure_from_no_drop(c) == [context |-> c, call |-> TRUE, drop |-> FALSE]

\* From<F>: the callable boxed behind context c, with both trampolines
closure_from(c) == [context |-> c, call |-> TRUE, drop |-> TRUE]

closure_drop_unchecked(cl) == IF cl.drop THEN cl.context ELSE 1

\* Drop for z_owned_closure_hello_t: the context drop is invoked on, or NULL
closure_drop(cl) == IF cl.drop THEN cl.context ELSE NULL

z_closure_hello_call_skips(cl) == NULL

z_closure_hello_call_unchecked(cl) == IF cl.call THEN cl.context ELSE 1

\* z_closure_hello_call: the context call is invoked with, or NULL (logged)
z_closure_hello_call(cl) == IF cl.call THEN cl.context ELSE NULL

z_closure_hello_drop_no_swap(cl) == [closure |-> cl, released |-> cl]

\* z_closure_hello_drop: the handle after the swap, and the closure that goes
\* out of scope
z_closure_hello_drop(cl) == [closure |-> empty, released |-> cl]

\* ------------------------------------------------------------- z_scout
\* the native replies a session reports in the scout specification
ScoutHellos ==
    {[whatami |-> None, zid |-> None, locators |-> None],
     [whatami |-> Some(MaxKind), zid |-> None, locators |-> Some(<<<<1>>>>)]}

\* WhatAmI flags of the matcher bitmask
ROUTER == 1
PEER == 2
CLIENT == 4
\* a bit no WhatAmI flag has
NoSuchKind == 8
\* the `what` arguments a caller passes
Whats == (0..MaxWhat) \cup {NoSuchKind}
\* the `what` argument of the caller that runs several rounds
ScoutWhats == {ROUTER + PEER}

\* WhatAmIMatcher::try_from(what as u64): a non-empty set of WhatAmI flags
try_from(what) ==
    IF what \in 1..(ROUTER + PEER + CLIENT) THEN Some(what) ELSE None

unwrap_or(opt, default) == IF opt # None THEN opt[1] ELSE default

what_matcher_router_only(what) == unwrap_or(try_from(what), ROUTER)

\* WhatAmIMatcher::try_from(what as u64).unwrap_or(WhatAmI::Router | WhatAmI::Peer)
what_matcher(what) == unwrap_or(try_from(what), ROUTER + PEER)

NoRound ==
    [state |-> "unused", closure |-> empty, cfg |-> 0, matcher |-> 0, delivered |-> 0,
     calls |-> 0, late |-> FALSE, overlap |-> FALSE]

IdleWorker ==
    [pc |-> "idle", round |-> 0,
     native |-> [whatami |-> None, zid |-> None, locators |-> None],
     hello |-> z_hello_null]

take_keeps_config(cfg, cb) ==
    [config |-> cfg, cfg |-> cfg[1], closure |-> cb, callback |-> empty]

take_keeps_callback(cfg, cb) ==
    [config |-> None, cfg |-> cfg[1], closure |-> cb, callback |-> cb]

\* config.as_mut().take().expect(..); closure = empty(); swap(closure, callback)
take(cfg, cb) ==
    [config |-> None, cfg |-> cfg[1], closure |-> cb, callback |-> empty]

InCall(r) == {w \in Workers : worker[w].pc = "call" /\ worker[w].round = r}

\* a round that has released its closure keeps the closure's identity and
\* its configuration only
Closed(rd) ==
    [NoRound EXCEPT !.state = "closed", !.closure = rd.closure, !.cfg = rd.cfg,
                    !.matcher = rd.matcher]

can_drop_at_stop(r) == round[r].state \in {"stopping", "failed"}

\* the callback owns the closure and every dispatch borrows it: it is
\* dropped by the stopped session once no dispatch is in progress
can_drop(r) == round[r].state \in {"stopping", "failed"} /\ InCall(r) = {}

Alive == pc # "aborted"

ScoutInit ==
    /\ config = None
    /\ nconfig = 0
    /\ handle = "vacant"
    /\ callback = empty
    /\ nctx = 0
    /\ active = [c \in Ctxs |-> 0]
    /\ called = [c \in Ctxs |-> FALSE]
    /\ drops = [c \in Ctxs |-> [started |-> 0, ended |-> 0]]
    /\ pc = "caller"
    /\ mainCtx = NULL
    /\ mop = "none"
    /\ logged = FALSE
    /\ round = [r \in Rounds |-> NoRound]
    /\ nround = 0
    /\ worker = [w \in Workers |-> IdleWorker]
    /\ timer = "idle"

\* the rounds run with Z_ROUTER the Router flag of line 161; HelloSpec covers
\* both values
Init ==
    /\ HelloInit({[whatami |-> None, zid |-> None, locators |-> None]})
    /\ z_router = ROUTER
    /\ ScoutInit

InitNative == HelloInit(NativeHellos) /\ ScoutInit

Begin(counter, c) == [counter EXCEPT ![c].started = @ + 1]
End(counter, c) == [counter EXCEPT ![c].ended = @ + 1]

\* the caller obtains a configuration
ConfigNew ==
    /\ pc = "caller"
    /\ config = None
    /\ nconfig < MaxRounds
    /\ config' = Some(nconfig + 1)
    /\ nconfig' = nconfig + 1
    /\ mop' = "other"
    /\ UNCHANGED <<handle, callback, nctx, active, called, drops, pc, mainCtx, logged,
                   round, nround, worker>>
    /\ UNCHANGED timer
    /\ UNCHANGED hvars

ClosureEmpty ==
    /\ pc = "caller"
    /\ handle = "vacant"
    /\ handle' = "live"
    /\ callback' = empty
    /\ mop' = "other"
    /\ UNCHANGED <<config, nconfig, nctx, active, called, drops, pc, mainCtx, logged,
                   round, nround, worker>>
    /\ UNCHANGED timer
    /\ UNCHANGED hvars

ClosureFrom ==
    /\ pc = "caller"
    /\ handle = "vacant"
    /\ nctx < MaxCtx
    /\ handle' = "live"
    /\ nctx' = nctx + 1
    /\ callback' = closure_from(nctx + 1)
    /\ mop' = "other"
    /\ UNCHANGED <<config, nconfig, active, called, drops, pc, mainCtx, logged,
                   round, nround, worker>>
    /\ UNCHANGED timer
    /\ UNCHANGED hvars

\* z_closure_hello_call(&callback, &mut hello) from the caller's thread
ClosureCall ==
    /\ pc = "caller"
    /\ handle = "live"
    /\ LET c == z_closure_hello_call(callback)
       IN IF c # NULL
          THEN /\ active' = [active EXCEPT ![c] = @ + 1]
               /\ called' = [called EXCEPT ![c] = TRUE]
               /\ pc' = "call"
               /\ mainCtx' = c
               /\ UNCHANGED logged
          ELSE /\ logged' = TRUE
               /\ UNCHANGED <<active, called, pc, mainCtx>>
    /\ mop' = "other"
    /\ UNCHANGED <<config, nconfig, handle, callback, nctx, drops, round, nround, worker>>
    /\ UNCHANGED timer
    /\ UNCHANGED hvars

ClosureCallReturn ==
    /\ pc = "call"
    /\ active' = [active EXCEPT ![mainCtx] = @ - 1]
    /\ pc' = "caller"
    /\ mainCtx' = NULL
    /\ UNCHANGED <<config, nconfig, handle, callback, nctx, called, drops, mop, logged,
                   round, nround, worker>>
    /\ UNCHANGED timer
    /\ UNCHANGED hvars

\* Drop::drop of a closure on the caller's thread
RunDrop(cl) ==
    LET c == closure_drop(cl)
    IN IF c # NULL
       THEN /\ drops' = Begin(drops, c)
            /\ pc' = "drop"
            /\ mainCtx' = c
       ELSE UNCHANGED <<drops, pc, mainCtx>>

\* z_closure_hello_drop(&mut callback)
ClosureDrop ==
    /\ pc = "caller"
    /\ handle = "live"
    /\ LET r == z_closure_hello_drop(callback)
       IN /\ callback' = r.closure
          /\ RunDrop(r.released)
    /\ mop' = IF callback = empty THEN "z_closure_hello_drop(empty)" ELSE "other"
    /\ UNCHANGED <<config, nconfig, handle, nctx, active, called, logged, round, nround, worker>>
    /\ UNCHANGED timer
    /\ UNCHANGED hvars

\* the caller's handle goes out of scope
HandleDestroy ==
    /\ pc = "caller"
    /\ handle = "live"
    /\ handle' = "vacant"
    /\ callback' = empty
    /\ RunDrop(callback)
    /\ mop' = IF callback = empty THEN "destroy(empty)" ELSE "other"
    /\ UNCHANGED <<config, nconfig, nctx, active, called, logged, round, nround, worker>>
    /\ UNCHANGED timer
    /\ UNCHANGED hvars

ClosureDropReturn ==
    /\ pc = "drop"
    /\ drops' = End(drops, mainCtx)
    /\ pc' = "caller"
    /\ mainCtx' = NULL
    /\ UNCHANGED <<config, nconfig, handle, callback, nctx, active, called, mop, logged,
                   round, nround, worker>>
    /\ UNCHANGED timer
    /\ UNCHANGED hvars

ScoutInvalidConfig_after_swap ==
    /\ pc = "caller"
    /\ handle = "live"
    /\ config = None
    /\ callback' = empty
    /\ pc' = "aborted"
    /\ mop' = "z_scout(abort)"
    /\ UNCHANGED <<config, nconfig, handle, nctx, active, called, drops, mainCtx,
                   logged, round, nround, worker>>
    /\ UNCHANGED timer
    /\ UNCHANGED hvars

\* z_scout with an absent configuration: expect("invalid config") panics
ScoutInvalidConfig ==
    /\ pc = "caller"
    /\ handle = "live"
    /\ config = None
    /\ pc' = "aborted"
    /\ mop' = "z_scout(abort)"
    /\ UNCHANGED <<config, nconfig, handle, callback, nctx, active, called, drops, mainCtx,
                   logged, round, nround, worker>>
    /\ UNCHANGED timer
    /\ UNCHANGED hvars

\* z_scout after the filter is decoded: the configuration and the closure
\* are taken and zenoh::scout(matcher, config).callback(..).res_async()
\* .await is Ok (ok) or Err; on Ok the sleep is started
Start(matcher, ok) ==
    /\ pc = "caller"
    /\ handle = "live"
    /\ config # None
    /\ nround < MaxRounds
    /\ LET t == take(config, callback)
       IN /\ config' = t.config
          /\ callback' = t.callback
          /\ round' = [round EXCEPT ![nround + 1] =
                          [NoRound EXCEPT !.state = IF ok THEN "running" ELSE "failed",
                                          !.closure = t.closure,
                                          !.cfg = t.cfg,
                                          !.matcher = matcher]]
    /\ nround' = nround + 1
    /\ pc' = IF ok THEN "scout_sleep" ELSE "scout_panic"
    /\ timer' = IF ok THEN "armed" ELSE "idle"
    /\ UNCHANGED <<nconfig, handle, nctx, active, called, drops, mainCtx, logged, worker>>
    /\ UNCHANGED hvars

\* z_scout up to the sleep, from the decoding of `what` on line 161
Enter(what, ok) ==
    /\ Start(what_matcher(what), ok)
    /\ mop' = IF try_from(what) = None THEN "z_scout(fallback)" ELSE "z_scout"

ScoutEstablished(what) == Enter(what, TRUE)

\* unwrap() panics; the callback is released by the unwinding, if the build
\* unwinds
ScoutEstablishFailed(what) == Enter(what, FALSE)

ScoutPanicAbort ==
    /\ pc = "scout_panic"
    /\ round[nround].state \in {"failed", "closed"}
    /\ pc' = "aborted"
    /\ UNCHANGED <<config, nconfig, handle, callback, nctx, active, called, drops, mainCtx,
                   mop, logged, round, nround, worker, timer>>
    /\ UNCHANGED hvars

\* the duration of task::sleep(timeout) elapses
TimerExpires ==
    /\ timer = "armed"
    /\ timer' = "expired"
    /\ UNCHANGED <<config, nconfig, handle, callback, nctx, active, called, drops, pc,
                   mainCtx, mop, logged, round, nround, worker>>
    /\ UNCHANGED hvars

wake_on_reply(t, delivered) == t = "expired" \/ delivered > 0

\* the sleep future of line 175 is ready: only the timer completes it
wake(t, delivered) == t = "expired"

\* the sleep returns; std::mem::drop(scout); block_on and z_scout return
ScoutReturn ==
    /\ pc = "scout_sleep"
    /\ wake(timer, round[nround].delivered)
    /\ timer' = "idle"
    /\ round' = [round EXCEPT ![nround].state = "stopping"]
    /\ pc' = "caller"
    /\ UNCHANGED <<config, nconfig, handle, callback, nctx, active, called, drops, mainCtx,
                   mop, logged, nround, worker>>
    /\ UNCHANGED hvars

\* the session's callback on worker w, the first idle one of the pool's
\* interchangeable threads: hello = h.into();
\* z_closure_hello_call(&closure, &mut hello)
Dispatch(w, r, h) ==
    /\ Alive
    /\ worker[w].pc = "idle"
    /\ \A v \in Workers : worker[v].pc = "idle" => w <= v
    /\ round[r].state \in {"running", "stopping"}
    /\ round[r].delivered < MaxReplies
    /\ Room(heap) >= MaxLocators + 1
    /\ LET cv == from(h, z_router, heap)
           c == z_closure_hello_call(round[r].closure)
       IN IF c # NULL
          THEN /\ active' = [active EXCEPT ![c] = @ + 1]
               /\ called' = [called EXCEPT ![c] = TRUE]
               /\ worker' = [worker EXCEPT ![w] =
                               [pc |-> "call", round |-> r, native |-> h,
                                hello |-> cv.hello]]
               /\ heap' = cv.heap
               /\ round' = [round EXCEPT
                               ![r].delivered = @ + 1,
                               ![r].calls = @ + 1,
                               ![r].late = @ \/ round[r].state = "stopping",
                               ![r].overlap = @ \/ InCall(r) # {}]
               /\ UNCHANGED logged
          ELSE \* nothing is called; hello goes out of scope
               /\ logged' = TRUE
               /\ heap' = z_hello_drop(cv.hello, cv.heap).heap
               /\ round' = [round EXCEPT ![r].delivered = @ + 1]
               /\ UNCHANGED <<active, called, worker>>
    /\ UNCHANGED <<config, nconfig, handle, callback, nctx, drops, pc, mainCtx,
                   mop, nround>>
    /\ UNCHANGED timer
    /\ UNCHANGED <<z_router, native, hello, lastOp, prevOp, preHello, nfreed>>

\* call returns on worker w; hello goes out of scope
DispatchReturn(w) ==
    /\ Alive
    /\ worker[w].pc = "call"
    /\ active' = [active EXCEPT ![round[worker[w].round].closure.context] = @ - 1]
    /\ heap' = z_hello_drop(worker[w].hello, heap).heap
    /\ worker' = [worker EXCEPT ![w] = IdleWorker]
    /\ UNCHANGED <<config, nconfig, handle, callback, nctx, called, drops, pc, mainCtx,
                   mop, logged, round, nround>>
    /\ UNCHANGED timer
    /\ UNCHANGED <<z_router, native, hello, lastOp, prevOp, preHello, nfreed>>

\* inside call on worker w the callable moves the reply into the caller's own
\* slot and leaves z_hello_null() behind
CallbackSteal(w) ==
    /\ Alive
    /\ worker[w].pc = "call"
    /\ ~z_str_array_check(hello.locators)
    /\ hello' = worker[w].hello
    /\ worker' = [worker EXCEPT ![w].hello = z_hello_null]
    /\ nfreed' = 0
    /\ Record("steal")
    /\ UNCHANGED <<config, nconfig, handle, callback, nctx, active, called, drops, pc,
                   mainCtx, mop, logged, round, nround, timer>>
    /\ UNCHANGED <<z_router, heap, native>>

\* inside call on worker w the callable calls z_hello_drop on the reply
CallbackHelloDrop(w) ==
    /\ Alive
    /\ worker[w].pc = "call"
    /\ LET r == z_hello_drop(worker[w].hello, heap)
       IN /\ worker' = [worker EXCEPT ![w].hello = r.hello]
          /\ heap' = r.heap
    /\ UNCHANGED <<config, nconfig, handle, callback, nctx, active, called, drops, pc,
                   mainCtx, mop, logged, round, nround, timer>>
    /\ UNCHANGED <<z_router, native, hello, lastOp, prevOp, preHello, nfreed>>

\* the stopped session releases its callback, and the closure with it
CallbackDrop(r) ==
    /\ Alive
    /\ can_drop(r)
    /\ LET c == closure_drop(round[r].closure)
       IN IF c # NULL
          THEN /\ drops' = Begin(drops, c)
               /\ round' = [round EXCEPT ![r].state = "dropping"]
          ELSE /\ round' = [round EXCEPT ![r] = Closed(round[r])]
               /\ UNCHANGED drops
    /\ UNCHANGED <<config, nconfig, handle, callback, nctx, active, called, pc, mainCtx,
                   mop, logged, nround, worker>>
    /\ UNCHANGED timer
    /\ UNCHANGED hvars

CallbackDropReturn(r) ==
    /\ Alive
    /\ round[r].state = "dropping"
    /\ drops' = End(drops, round[r].closure.context)
    /\ round' = [round EXCEPT ![r] = Closed(round[r])]
    /\ UNCHANGED <<config, nconfig, handle, callback, nctx, active, called, pc, mainCtx,
                   mop, logged, nround, worker>>
    /\ UNCHANGED timer
    /\ UNCHANGED hvars

Next ==
    \/ ConfigNew
    \/ ClosureEmpty
    \/ ClosureFrom
    \/ ClosureCall
    \/ ClosureCallReturn
    \/ ClosureDrop
    \/ HandleDestroy
    \/ ClosureDropReturn
    \/ ScoutInvalidConfig
    \/ \E what \in ScoutWhats : ScoutEstablished(what)
    \/ \E what \in ScoutWhats : ScoutEstablishFailed(what)
    \/ ScoutPanicAbort
    \/ TimerExpires
    \/ ScoutReturn
    \/ \E w \in Workers, r \in Rounds, h \in ScoutHellos : Dispatch(w, r, h)
    \/ \E w \in Workers : DispatchReturn(w)
    \/ \E r \in Rounds : CallbackDrop(r)
    \/ \E r \in Rounds : CallbackDropReturn(r)

Spec == Init /\ [][Next]_vars

HelloNext ==
    \/ HelloFrom /\ UNCHANGED svars
    \/ HelloNull /\ UNCHANGED svars
    \/ HelloDrop /\ UNCHANGED svars
    \/ StrArrayDrop /\ UNCHANGED svars

HelloSpec == InitNative /\ [][HelloNext]_vars

\* ------------------------------------------------------------ RoundSpec
\* one z_scout call: the caller holds a configuration and a populated
\* closure and is about to call z_scout
RoundInit ==
    /\ HelloInit({[whatami |-> None, zid |-> None, locators |-> None]})
    /\ z_router = ROUTER
    /\ config = Some(1)
    /\ nconfig = 1
    /\ handle = "live"
    /\ callback = closure_from(1)
    /\ nctx = 1
    /\ active = [c \in Ctxs |-> 0]
    /\ called = [c \in Ctxs |-> FALSE]
    /\ drops = [c \in Ctxs |-> [started |-> 0, ended |-> 0]]
    /\ pc = "caller"
    /\ mainCtx = NULL
    /\ mop = "other"
    /\ logged = FALSE
    /\ round = [r \in Rounds |-> NoRound]
    /\ nround = 0
    /\ worker = [w \in Workers |-> IdleWorker]
    /\ timer = "idle"

\* the round with any filter, callables that leave, steal or drop the reply,
\* and the caller releasing what it stole
RoundNext ==
    \/ \E what \in Whats : ScoutEstablished(what)
    \/ \E what \in Whats : ScoutEstablishFailed(what)
    \/ ScoutPanicAbort
    \/ TimerExpires
    \/ ScoutReturn
    \/ \E w \in Workers, r \in Rounds, h \in ScoutHellos : Dispatch(w, r, h)
    \/ \E w \in Workers : DispatchReturn(w)
    \/ \E w \in Workers : CallbackSteal(w)
    \/ \E w \in Workers : CallbackHelloDrop(w)
    \/ HelloDrop /\ Alive /\ UNCHANGED svars
    \/ \E r \in Rounds : CallbackDrop(r)
    \/ \E r \in Rounds : CallbackDropReturn(r)

RoundSpec == RoundInit /\ [][RoundNext]_vars

\* the timer of the sleep fires and the woken z_scout runs on
RoundLiveSpec ==
    RoundInit /\ [][RoundNext]_vars /\ WF_vars(TimerExpires) /\ WF_vars(ScoutReturn)
\* ------------------------------------------------- owned-value properties
\* the array holds exactly len strings: a live buffer of len distinct live
\* CStrings (no buffer when len = 0)
HoldsStrings(strs, hp) ==
    IF strs.len = 0
    THEN strs.val \notin Addrs
    ELSE /\ strs.val \in Addrs
         /\ hp[strs.val].kind = "vec"
         /\ hp[strs.val].live
         /\ Len(hp[strs.val].data) = strs.len
         /\ \A i \in 1..strs.len :
               /\ hp[strs.val].data[i] \in Addrs
               /\ hp[hp[strs.val].data[i]].kind = "cstr"
               /\ hp[hp[strs.val].data[i]].live
               /\ \A j \in 1..strs.len :
                     hp[strs.val].data[i] = hp[strs.val].data[j] => i = j

\* the blocks the array owned before lastOp: its strings and its buffer
PreBlocks ==
    {Stored(preHello.locators, heap)[i] : i \in 1..Len(Stored(preHello.locators, heap))}
        \cup (IF preHello.locators.val \in Addrs /\ preHello.locators.len > 0
              THEN {preHello.locators.val} ELSE {})

NoDoubleFree == \A a \in Addrs : heap[a].frees <= 1

\* the tag from_native stores: the native tag, or Z_ROUTER when it is absent
ConvertedTag == IF native.whatami # None THEN native.whatami[1] ELSE z_router

\* C6 (as stated): every reply is fully valid (tag not 0 and array valid) or
\* the canonical gravestone (tag 0, zero identity, invalid array).
C6_ValidOrGravestone ==
    \/ (hello.whatami # 0 /\ z_str_array_check(hello.locators))
    \/ hello = z_hello_null

\* C6 (amended): null() yields the canonical gravestone; drop(reply) leaves
\* tag 0 and an invalid array but keeps the identity; from_native yields the
\* converted tag and identity, with a valid array iff the locator list was
\* present.
C6_ReplyStates ==
    /\ lastOp = "z_hello_null" => hello = z_hello_null
    /\ lastOp = "z_hello_drop" =>
          /\ hello.whatami = 0
          /\ hello.locators = [val |-> NULL, len |-> 0]
          /\ hello.pid = preHello.pid
    /\ lastOp = "from" =>
          /\ hello.whatami = ConvertedTag
          /\ hello.pid = (IF native.zid # None THEN native.zid[1] ELSE 0)
          /\ z_str_array_check(hello.locators) <=> native.locators # None

\* a dropped reply that is neither valid nor the canonical gravestone
C6_Witness ==
    /\ lastOp = "z_hello_drop"
    /\ prevOp = "from"
    /\ preHello.whatami # 0
    /\ z_str_array_check(preHello.locators)
    /\ hello.pid # 0

\* C7 (as stated): the array has val null and len 0, or val non-null,
\* len > 0 and exactly len strings.
C7_NullOrNonEmpty ==
    \/ (hello.locators.val = NULL /\ hello.locators.len = 0)
    \/ /\ hello.locators.val # NULL
       /\ hello.locators.len > 0
       /\ HoldsStrings(hello.locators, heap)

\* C7 (amended): the array has val null and len 0, or val non-null and
\* exactly len strings, where len is 0 for a present but empty locator list.
C7_NullOrHoldsLen ==
    \/ (hello.locators.val = NULL /\ hello.locators.len = 0)
    \/ /\ hello.locators.val # NULL
       /\ HoldsStrings(hello.locators, heap)
       /\ hello.locators.len = 0 => native.locators = Some(<<>>)

\* an array built from a present, empty locator list
C7_Witness ==
    /\ lastOp = "from"
    /\ native.locators = Some(<<>>)
    /\ hello.locators.val # NULL
    /\ hello.locators.len = 0

\* C8 (as stated): after from_native, is_valid iff the native tag was present
\* and not 0 and the native locator list was present.
C8_ValidIffNativeTag ==
    lastOp = "from" =>
        (z_hello_check(hello) <=>
            /\ native.whatami # None
            /\ native.whatami[1] # 0
            /\ native.locators # None)

\* C8 (amended): after from_native, is_valid iff the converted tag (the native
\* tag, or Z_ROUTER when the native tag is absent) is not 0 and the native
\* locator list was present.
C8_ValidIffConvertedTag ==
    lastOp = "from" =>
        (z_hello_check(hello) <=> (ConvertedTag # 0 /\ native.locators # None))

\* a valid reply converted from a native reply without a kind tag
C8_Witness ==
    /\ lastOp = "from"
    /\ native.whatami = None
    /\ native.locators # None
    /\ z_hello_check(hello)

\* C9: free on a valid array deallocates each string and the buffer exactly
\* once and leaves the array invalid; a second free deallocates nothing and
\* leaves the array as it was.
C9_FreeIdempotent ==
    /\ NoDoubleFree
    /\ (lastOp = "z_str_array_drop" /\ z_str_array_check(preHello.locators)) =>
          /\ \A a \in PreBlocks : heap[a].frees = 1 /\ ~heap[a].live
          /\ nfreed = Cardinality(PreBlocks)
          /\ nfreed = preHello.locators.len + (IF preHello.locators.len > 0 THEN 1 ELSE 0)
          /\ ~z_str_array_check(hello.locators)
    /\ (lastOp = "z_str_array_drop" /\ prevOp = "z_str_array_drop") =>
          /\ nfreed = 0
          /\ hello = preHello
          /\ ~z_str_array_check(hello.locators)

\* a second free of an array that held strings
C9_Witness ==
    /\ lastOp = "z_str_array_drop"
    /\ prevOp = "z_str_array_drop"
    /\ native.locators # None
    /\ Len(native.locators[1]) = MaxLocators
    /\ Cardinality(Used(heap)) = MaxLocators + 1
    /\ \A a \in Used(heap) : heap[a].frees = 1

\* C10: drop(reply) frees the embedded array and sets the tag to 0, so the
\* reply is invalid afterwards; a second drop frees nothing and leaves the
\* reply as it was.
C10_HelloDropIdempotent ==
    /\ NoDoubleFree
    /\ lastOp = "z_hello_drop" =>
          /\ \A a \in PreBlocks : heap[a].frees = 1 /\ ~heap[a].live
          /\ nfreed = Cardinality(PreBlocks)
          /\ ~z_str_array_check(hello.locators)
          /\ hello.whatami = 0
          /\ ~z_hello_check(hello)
    /\ (lastOp = "z_hello_drop" /\ prevOp = "z_hello_drop") =>
          /\ nfreed = 0
          /\ hello = preHello

\* a second drop of a reply that was valid and held strings
C10_Witness ==
    /\ lastOp = "z_hello_drop"
    /\ prevOp = "z_hello_drop"
    /\ native.whatami # None
    /\ native.whatami[1] # 0
    /\ native.locators # None
    /\ Len(native.locators[1]) = MaxLocators
    /\ Cardinality(Used(heap)) = MaxLocators + 1
    /\ \A a \in Used(heap) : heap[a].frees = 1

\* the text a C caller reads behind a char pointer: the bytes before the
\* first NUL
RECURSIVE CStrText(_)
CStrText(bytes) ==
    IF bytes = <<>> \/ Head(bytes) = 0 THEN <<>>
    ELSE <<Head(bytes)>> \o CStrText(Tail(bytes))

\* C16: after from_native of a reply whose locator list is present, the
\* array's count is the number of native locators and its i-th string is a
\* live NUL-terminated copy of the i-th native locator's text, in order.
C16_LocatorsCopiedInOrder ==
    (lastOp = "from" /\ native.locators # None) =>
        /\ hello.locators.len = Len(native.locators[1])
        /\ Len(Stored(hello.locators, heap)) = Len(native.locators[1])
        /\ \A i \in 1..Len(native.locators[1]) :
              LET p == Stored(hello.locators, heap)[i]
              IN /\ p \in Addrs
                 /\ heap[p].kind = "cstr"
                 /\ heap[p].live
                 /\ heap[p].data[Len(heap[p].data)] = 0
                 /\ CStrText(heap[p].data) = native.locators[1][i]

\* two different locators converted, the longer text first
C16_Witness ==
    /\ lastOp = "from"
    /\ native.locators = Some(<<<<2, 1>>, <<1>>>>)
    /\ hello.locators.len = 2
    /\ hello.locators.val \in Addrs
\* ------------------------------------------------ closure and scout properties
InScout == pc \in {"scout_sleep", "scout_panic"}

\* z_scout has returned from round r
Returned(r) == round[r].state \in {"stopping", "dropping", "closed"}

\* the rounds that took a populated closure
Populated == {r \in 1..nround : round[r].closure.context # NULL}

\* C1: no call starts once drop has started and drop starts only after every
\* started call has returned: while or after drop runs on a context, no call
\* on that context is in progress.
C1_CallNeverOverlapsDrop ==
    \A c \in Ctxs : drops[c].started > 0 => active[c] = 0

\* a round whose closure was called from two workers at once and for a reply
\* that arrived during teardown, and was then dropped
C1_Witness ==
    \E r \in Populated :
        /\ round[r].state = "dropping"
        /\ round[r].overlap
        /\ round[r].late
        /\ drops[round[r].closure.context].started = 1

\* the holders of context c: the caller's handle and the rounds that have not
\* released their closure
Owners(c) ==
    (IF handle = "live" /\ callback.context = c THEN 1 ELSE 0)
    + Cardinality({r \in 1..nround :
                      /\ round[r].closure.context = c
                      /\ round[r].state \notin {"dropping", "closed"}})

\* C2: drop is invoked on the context of a closure built by from(callable)
\* exactly once: the context has one holder until drop is invoked on it and
\* none afterwards, so a later z_closure_hello_drop or destruction of the
\* handle finds it empty and releases nothing.
C2_DropExactlyOnce ==
    \A c \in 1..nctx :
        /\ drops[c].started <= 1
        /\ Owners(c) + drops[c].started = 1
        /\ (handle = "vacant" /\ \A r \in 1..nround : round[r].closure.context # c)
              => drops[c].started = 1

\* a closure called, dropped through its handle, and the emptied handle
\* dropped again
C2_Witness ==
    /\ nround = 0
    /\ nctx = 1
    /\ called[1]
    /\ drops[1].ended = 1
    /\ handle = "live"
    /\ mop = "z_closure_hello_drop(empty)"

C4_StateInv ==
    /\ \A r1, r2 \in 1..nround : round[r1].cfg = round[r2].cfg => r1 = r2
    /\ InScout => config = None
    /\ (pc = "caller" /\ mop = "z_scout") => config = None

C4_AbortStep ==
    (pc = "caller" /\ pc' = "aborted") =>
        /\ config = None
        /\ round' = round
        /\ nround' = nround
        /\ active' = active
        /\ called' = called
        /\ drops' = drops
        /\ worker' = worker

C4_ConfigUsedOnce == [](C4_StateInv) /\ [][C4_AbortStep]_vars

\* z_scout aborted on the handle that an earlier z_scout had consumed
C4_Witness ==
    /\ pc = "aborted"
    /\ mop = "z_scout(abort)"
    /\ nconfig = 1
    /\ nround = 1
    /\ Returned(1)

\* C5: once z_scout has taken a closure the caller's handle is empty and the
\* captured state is held by the round alone: the caller's thread never runs
\* its entry points, and a round started from an empty handle calls nothing.
C5_CallerHandleEmptied ==
    /\ InScout => callback = empty
    /\ (pc = "caller" /\ mop = "z_scout") => callback = empty
    /\ \A r \in Populated :
          /\ ~(handle = "live" /\ callback.context = round[r].closure.context)
          /\ pc \in {"call", "drop"} => mainCtx # round[r].closure.context
    /\ \A r \in (1..nround) \ Populated : round[r].calls = 0

\* z_scout has returned with a populated closure taken and the round still
\* holds it undropped; on the emptied handle the caller's z_closure_hello_call
\* was logged and its z_closure_hello_drop released nothing
C5_Witness ==
    /\ nround = 1
    /\ round[1].closure.context # NULL
    /\ round[1].state = "stopping"
    /\ round[1].calls > 0
    /\ drops[round[1].closure.context].started = 0
    /\ callback = empty
    /\ handle = "live"
    /\ logged
    /\ mop = "z_closure_hello_drop(empty)"

\* C11: z_closure_hello_call on an empty closure invokes no entry point, only
\* logs and returns to its caller, and leaves the closure and the reply as
\* they were; in a round that holds an empty closure the converted reply is
\* released by its own destructor and by nothing else.
C11_EmptyCallStep ==
    /\ (callback = empty /\ ClosureCall) =>
          /\ logged'
          /\ pc' = "caller"
          /\ UNCHANGED <<callback, hello, heap, active, called, drops, mainCtx, round, worker>>
    /\ \A r \in Rounds, w \in Workers, h \in ScoutHellos :
          (round[r].closure = empty /\ worker[w].pc = "idle" /\ Dispatch(w, r, h)) =>
              /\ logged'
              /\ pc' = pc
              /\ UNCHANGED <<callback, active, called, drops, worker>>
              /\ round'[r].closure = empty
              /\ round'[r].calls = round[r].calls
              /\ \A a \in Addrs : heap'[a].live = heap[a].live

C11_EmptyCallIsNoOp == [][C11_EmptyCallStep]_vars

\* the caller called its empty handle before any round: the error was logged
\* and no entry point has run
C11_Witness ==
    /\ logged
    /\ nround = 0
    /\ pc = "caller"
    /\ handle = "live"
    /\ callback = empty
    /\ hello = z_hello_null
    /\ \A c \in Ctxs : active[c] = 0 /\ ~called[c]

\* C12: z_closure_hello_drop on an empty closure invokes no drop entry point
\* and leaves the closure empty; nothing else changes.
C12_EmptyDropStep ==
    (callback = empty /\ ClosureDrop) =>
        /\ callback' = empty
        /\ pc' = "caller"
        /\ UNCHANGED <<config, nconfig, handle, nctx, active, called, drops, mainCtx,
                       logged, round, nround, worker>>
        /\ UNCHANGED hvars

C12_EmptyDropIsNoOp == [][C12_EmptyDropStep]_vars

\* the caller dropped its empty handle before any round: no drop entry point
\* has run
C12_Witness ==
    /\ mop = "z_closure_hello_drop(empty)"
    /\ nround = 0
    /\ pc = "caller"
    /\ handle = "live"
    /\ callback = empty
    /\ \A c \in Ctxs : drops[c].started = 0

FullyEmpty(cl) == cl.context = NULL /\ ~cl.call /\ ~cl.drop
FullyPopulated(cl) == cl.context # NULL /\ cl.call /\ cl.drop

\* C13: the caller's handle and the closure every round holds are fully
\* empty or fully populated, never a mixture.
C13_EmptyOrPopulated ==
    /\ FullyEmpty(callback) \/ FullyPopulated(callback)
    /\ \A r \in 1..nround :
          FullyEmpty(round[r].closure) \/ FullyPopulated(round[r].closure)

\* z_scout has swapped a populated closure out of the caller's handle: the
\* round holds the populated closure, the handle the empty one
C13_Witness ==
    /\ nround = 1
    /\ pc = "scout_sleep"
    /\ FullyPopulated(round[1].closure)
    /\ round[1].calls > 0
    /\ handle = "live"
    /\ FullyEmpty(callback)

\* C18: when z_scout aborts on an absent configuration the caller's closure
\* handle is as it was passed in, and no call or drop entry point is
\* invoked by the aborted operation.
C18_AbortStep ==
    (pc = "caller" /\ pc' = "aborted") =>
        /\ config = None
        /\ mop' = "z_scout(abort)"
        /\ UNCHANGED <<handle, callback, active, called, drops, mainCtx, round, nround,
                       worker>>

C18_AbortStateInv ==
    (pc = "aborted" /\ mop = "z_scout(abort)") => mainCtx = NULL

C18_AbortLeavesClosure == [](C18_AbortStateInv) /\ [][C18_AbortStep]_vars

\* z_scout aborted on an absent configuration with a populated closure that
\* has been neither called nor dropped
C18_Witness ==
    /\ pc = "aborted"
    /\ mop = "z_scout(abort)"
    /\ config = None
    /\ handle = "live"
    /\ FullyPopulated(callback)
    /\ ~called[callback.context]
    /\ active[callback.context] = 0
    /\ drops[callback.context].started = 0

\* the blocks a reply owns: its strings and its buffer
Blocks(h, hp) ==
    {Stored(h.locators, hp)[i] : i \in 1..Len(Stored(h.locators, hp))}
        \cup (IF h.locators.val \in Addrs /\ h.locators.len > 0
              THEN {h.locators.val} ELSE {})

\* the blocks of the reply that the call in progress on worker w was given
InFlight(w) == IF worker[w].pc = "call" THEN Blocks(worker[w].hello, heap) ELSE {}

\* C17: the strings of a delivered reply are deallocated exactly once: no
\* block is ever released twice, and every block still allocated belongs to
\* exactly one reply, either one a call in progress was given or the one the
\* callable stole, so that when call has returned a reply left in place or
\* dropped by the callable has been released once and a stolen reply is
\* left to its new owner.
C17_RepliesFreedOnce ==
    /\ NoDoubleFree
    /\ \A a \in Used(heap) : ~heap[a].live => heap[a].frees = 1
    /\ {a \in Addrs : heap[a].live}
          = Blocks(hello, heap) \cup UNION {InFlight(w) : w \in Workers}
    /\ \A w \in Workers :
          /\ InFlight(w) \cap Blocks(hello, heap) = {}
          /\ \A v \in Workers : v # w => InFlight(w) \cap InFlight(v) = {}

\* every reply of the round was delivered and every call has returned: one
\* reply was stolen and is still allocated, another has been released
C17_Witness ==
    /\ round[1].state \in {"stopping", "closed"}
    /\ round[1].delivered = MaxReplies
    /\ \A w \in Workers : worker[w].pc = "idle"
    /\ lastOp = "steal"
    /\ z_str_array_check(hello.locators)
    /\ Blocks(hello, heap) # {}
    /\ \A a \in Blocks(hello, heap) : heap[a].live /\ heap[a].frees = 0
    /\ \E a \in Addrs : ~heap[a].live /\ heap[a].frees = 1

\* C15: for every `what` the decoder rejects, z_scout runs the round with the
\* Router-or-Peer matcher: its step is, entry point record aside, the step
\* z_scout takes with the matcher of ROUTER|PEER, so everything that follows
\* is the same; whether the session is established does not depend on `what`.
C15_FallbackStep ==
    \A what \in Whats, ok \in BOOLEAN :
        (pc = "caller" /\ try_from(what) = None /\ Enter(what, ok)) =>
            /\ Start(what_matcher(ROUTER + PEER), ok)
            /\ round'[nround'].matcher = ROUTER + PEER
            /\ pc' # "aborted"

C15_MatcherInv ==
    \A r \in 1..nround : round[r].matcher \in 1..(ROUTER + PEER + CLIENT)

C15_FallbackIsRouterOrPeer == [](C15_MatcherInv) /\ [][C15_FallbackStep]_vars

\* a round started with a rejected `what` delivered replies to the callable,
\* returned and released the closure
C15_Witness ==
    /\ mop = "z_scout(fallback)"
    /\ pc = "caller"
    /\ nround = 1
    /\ round[1].state = "closed"
    /\ round[1].matcher = ROUTER + PEER
    /\ called[1]
    /\ drops[1].ended = 1

C14_SleepInv ==
    pc = "scout_sleep" =>
        /\ timer \in {"armed", "expired"}
        /\ round[nround].state = "running"

C14_ReturnStep ==
    (pc = "scout_sleep" /\ pc' # "scout_sleep") =>
        /\ timer = "expired"
        /\ pc' = "caller"
        /\ round'[nround].state = "stopping"

====
